---- MODULE Spec2Model ----
(***************************************************************************)
(* A model of alpaca-rs: the Broker Client (src/src/alpaca_client.rs) with *)
(* its Request Executor make_request, and the Wrapper                      *)
(* (src/src/alpaca_wrapper.rs): its construction, its price fan-out, its   *)
(* cash and position refreshes.                                            *)
(*                                                                         *)
(* Strings that the code inspects character by character (the credentials *)
(* matched by the two regular expressions) are sequences of one-character  *)
(* strings.  Strings the code only compares, formats or forwards are TLA+  *)
(* strings; a formatted string (format!, join) is the sequence of its      *)
(* pieces.  A serde_json Value is a record with a "kind" field.            *)
(***************************************************************************)
EXTENDS Integers, Sequences, FiniteSets, TLC

VARIABLES
    client,       \* the AlpacaClient the caller holds, or NoClient
    stack,        \* the operations in progress, outermost first
    pc,           \* the position of the innermost operation
    req,          \* the request make_request has built, or NoReq
    sent,         \* outbound HTTP requests sent during the current call
    resp,         \* the response received (status and body), or NoResp
    body_read,    \* how reading the response's body ended, or "none"
    timed_out,    \* the per-call timeout has expired during the current call
    constructed,  \* the current connect call has built its Client value
    mr_result,    \* what make_request returned, or NoResult
    op_result,    \* what the Broker Client operation returned, or NoResult
    result,       \* what the outermost call returned, or NoResult
    last_prices,  \* AlpacaWrapper.last_prices, the shared PriceTable
    prices_lock,  \* the RwLock around last_prices: its writer and readers
    up_pc,        \* the position of the thread running update_prices
    tasks,        \* the JoinSet: item -> the task's state and output
    finished,     \* the items whose tasks have completed, in completion order
    asset_prices, \* update_prices' local asset_prices
    local_prices, \* update_prices' local last_prices
    rd_pc,        \* reader -> the position of that thread reading the PriceTable
    observed,     \* reader -> the table it copied under its read lock
    committed,    \* history: every table a write-lock section has stored
    wrapper,      \* the AlpacaWrapper value: its plain fields, or NoWrapper
    new_arg,      \* the assets argument AlpacaWrapper::new was called with
    main_pc,      \* the position of the thread that constructs the Wrapper
    trace,        \* history: the steps of new, as they began and ended
    requests,     \* history: network requests made on behalf of new
    cash,         \* CompletePosition.cash: the AtomicU64 storage, 4 x 16 bits
    positions,    \* CompletePosition.positions, the PositionBook
    positions_lock, \* the RwLock around positions
    cash_pc,      \* thread -> its position in update_cash_async
    cash_local,   \* thread -> update_cash_async's local cash
    pos_pc,       \* thread -> its position in update_positions_async
    pos_local,    \* thread -> update_positions_async's local new_positions
    stored,       \* history: the value of the latest cash.store
    loaded,       \* thread -> what its cash.load returned and should have
    logged,       \* history: the threads that logged a failed write lock
    calls         \* history: the latest calls of the pure functions

clientVars == <<client, stack, pc, req, sent, resp, body_read, timed_out,
                constructed,
                mr_result, op_result, result>>
wrapperVars == <<last_prices, prices_lock, up_pc, tasks, finished,
                 asset_prices, local_prices, rd_pc, observed, committed>>
newVars == <<wrapper, new_arg, main_pc, trace, requests>>
stateVars == <<cash, positions, positions_lock, cash_pc, cash_local, pos_pc,
               pos_local, stored, loaded, logged>>
vars == <<clientVars, wrapperVars, newVars, stateVars, calls>>

(***************************************************************************)
(* Values                                                                  *)
(***************************************************************************)
JNull == [kind |-> "Null"]
JString(s) == [kind |-> "String", s |-> s]
JObject(m) == [kind |-> "Object", map |-> m]
EmptyMap == [k \in {} |-> JNull]

Ok(v) == [ok |-> TRUE, val |-> v]
Err(e) == [ok |-> FALSE, err |-> e]
NoResult == [none |-> TRUE]

\* AlpacaError
InvalidKeyFormat == [kind |-> "InvalidKeyFormat"]
HttpError(status, message) ==
    [kind |-> "HttpError", status |-> status, message |-> message]
RequestError(e) == [kind |-> "RequestError", source |-> e]
JsonError(e) == [kind |-> "JsonError", source |-> e]
ConnectionError(msg) == [kind |-> "ConnectionError", message |-> msg]
Timeout == [kind |-> "Timeout"]
Other(msg) == [kind |-> "Other", message |-> msg]

\* a reqwest::Error: what failed, and what is_timeout() and is_connect() say
ReqwestError(what, isTimeout, isConnect) ==
    [what |-> what, is_timeout |-> isTimeout, is_connect |-> isConnect]

Rep(c, n) == [i \in 1..n |-> c]

\* slice.join(sep): the pieces of the joined string
RECURSIVE Join(_, _)
Join(seq, sep) ==
    IF Len(seq) = 0 THEN <<>>
    ELSE IF Len(seq) = 1 THEN <<seq[1]>>
    ELSE <<seq[1], sep>> \o Join(Tail(seq), sep)

Contains(seq, x) == \E i \in 1..Len(seq) : seq[i] = x

(***************************************************************************)
(* validate_keys                                                           *)
(***************************************************************************)
Upper == {"A", "B", "C", "D", "E", "F", "G", "H", "I", "J", "K", "L", "M",
          "N", "O", "P", "Q", "R", "S", "T", "U", "V", "W", "X", "Y", "Z"}
Lower == {"a", "b", "c", "d", "e", "f", "g", "h", "i", "j", "k", "l", "m",
          "n", "o", "p", "q", "r", "s", "t", "u", "v", "w", "x", "y", "z"}
Digit == {"0", "1", "2", "3", "4", "5", "6", "7", "8", "9"}

MinKeyTail == 10
MinSecretLen == 40

\* ^(PK|AK)[A-Z0-9]{10,}$
key_re(s) ==
    /\ Len(s) >= 2 + MinKeyTail
    /\ <<s[1], s[2]>> \in {<<"P", "K">>, <<"A", "K">>}
    /\ \A i \in 3..Len(s) : s[i] \in Upper \cup Digit

\* ^[A-Za-z0-9]{40,}$
secret_re(s) ==
    /\ Len(s) >= MinSecretLen
    /\ \A i \in 1..Len(s) : s[i] \in Upper \cup Lower \cup Digit

\* validate_keys without the secret's pattern
validate_keys_key_only(api_key, api_secret) == key_re(api_key)

\* validate_keys with || between the two matches
validate_keys_either(api_key, api_secret) ==
    key_re(api_key) \/ secret_re(api_secret)

validate_keys(api_key, api_secret) == key_re(api_key) /\ secret_re(api_secret)

\* the credentials of the tests, and the boundaries of the two patterns
KeyTest == <<"P", "K", "T", "E", "S", "T", "1", "2", "3", "4", "5",
             "A", "B", "C", "D", "E", "F", "G", "H", "I">>
SecretTest == <<"a", "b", "c", "d", "e", "f", "g", "h", "i", "j", "k", "l",
                "m", "n", "o", "p", "q", "r", "s", "t", "u", "v", "w", "x",
                "y", "z", "1", "2", "3", "4", "5", "6", "7", "8", "9", "0",
                "A", "B", "C", "D", "E", "F", "G">>
Keys ==
    { KeyTest,
      <<"A", "K">> \o Rep("0", MinKeyTail),
      <<"P", "K">> \o Rep("Z", MinKeyTail - 1),
      <<"X", "X">> \o Rep("A", MinKeyTail),
      <<"P", "K">> \o Rep("A", MinKeyTail) \o <<"a">>,
      <<"P", "K">> \o Rep("A", MinKeyTail) \o <<"\n">>,
      <<"i", "n", "v", "a", "l", "i", "d">> }
Secrets ==
    { SecretTest,
      Rep("x", MinSecretLen),
      Rep("x", MinSecretLen - 1),
      Rep("x", MinSecretLen) \o <<"-">>,
      <<"k", "e", "y", "s">> }

(***************************************************************************)
(* The Broker Client: requests, responses                                  *)
(***************************************************************************)
None == [some |-> FALSE]
Some(v) == [some |-> TRUE, v |-> v]
UnwrapOr(o, d) == IF o.some THEN o.v ELSE d

BaseUrl == "https://paper-api.alpaca.markets"
DataUrl == "https://data.alpaca.markets"
\* the hosts a client built field by field (create_test_client) may name;
\* the empty string is a base that is no absolute URL
MockUrl == "http://127.0.0.1:8080"
TestBases == {MockUrl, "https://api.example.com", ""}
TestDataBases == {"https://data.example.com"}

NoClient == [built |-> FALSE]
NoReq == [none |-> TRUE]
NoResp == [none |-> TRUE]

DefaultTimeoutSecs == 30
AccountTimeoutSecs == 10
TOO_MANY_REQUESTS == 429

Statuses == {200, 204, 301, 400, 429, 500}
Bodies == {"{}", "{\"status\": \"success\"}", "Bad request",
           "Rate limit exceeded", ""}
BodyReads == {"ok", "timeout", "io"}

\* is_success taking every status below 500
is_success_below_500(status) == status < 500

\* StatusCode::is_success
is_success(status) == 200 <= status /\ status <= 299

\* serde_json on the bodies above
ParseJson(body) ==
    CASE body = "{}" -> Ok(JObject(EmptyMap))
      [] body = "{\"status\": \"success\"}" ->
            Ok(JObject([k \in {"status"} |-> JString("success")]))
      [] OTHER -> Err("expected value")

\* Url::parse(&format!("{}{}", base_url, endpoint))
UrlParse(base_url, endpoint) ==
    IF base_url = "" THEN Err("relative URL without a base")
    ELSE Ok([base |-> base_url, path |-> endpoint])

\* an order that always carries the two defaults
OrderData_defaults_only(f) ==
    [symbol |-> f.symbol, qty |-> f.qty, side |-> f.side,
     type |-> "market", time_in_force |-> "ioc"]

\* let data = OrderData { .. }, as it is serialized
OrderData(f) ==
    [symbol |-> f.symbol, qty |-> f.qty, side |-> f.side,
     type |-> UnwrapOr(f.order_type, "market"),
     time_in_force |-> UnwrapOr(f.time_in_force, "ioc")]

\* query parameters that list the symbols last to first
QueryParams_reversed(assets) ==
    [symbols |-> Join([i \in 1..Len(assets) |-> assets[Len(assets) + 1 - i]],
                      ",")]

\* let params = QueryParams { symbols: assets.join(",") }
QueryParams(assets) == [symbols |-> Join(assets, ",")]

\* the arguments each operation hands to make_request
MakeRequestArgs(f) ==
    CASE f.op = "get_account" ->
            [method |-> "GET", endpoint |-> <<"/v2/account">>,
             base_url |-> f.self.base_url, query |-> None, body |-> None,
             timeout |-> Some(AccountTimeoutSecs)]
      [] f.op = "get_positions" ->
            [method |-> "GET", endpoint |-> <<"/v2/positions">>,
             base_url |-> f.self.base_url, query |-> None, body |-> None,
             timeout |-> None]
      [] f.op = "place_order" ->
            [method |-> "POST", endpoint |-> <<"/v2/orders">>,
             base_url |-> f.self.base_url, query |-> None,
             body |-> Some(OrderData(f)),
             timeout |-> None]
      [] f.op = "get_prices" ->
            [method |-> "GET",
             endpoint |-> <<"/v2/stocks/", f.price_type, "/latest">>,
             base_url |-> f.self.data_url,
             query |-> Some(QueryParams(f.assets)),
             body |-> None, timeout |-> None]
      [] f.op = "get_order_info" ->
            [method |-> "GET", endpoint |-> <<"/v2/orders/", f.id>>,
             base_url |-> f.self.base_url, query |-> None, body |-> None,
             timeout |-> None]

\* the connect test made before the timeout test
ClassifySendError_connect_first(e) ==
    IF e.is_connect THEN ConnectionError(e.what)
    ELSE IF e.is_timeout THEN Timeout
    ELSE RequestError(e)

\* request.send().await.map_err(..)
ClassifySendError(e) ==
    IF e.is_timeout THEN Timeout
    ELSE IF e.is_connect THEN ConnectionError(e.what)
    ELSE RequestError(e)

\* response.text().await.unwrap_or_else(|_| "Unknown error".to_string())
ErrorMessage(read, body) == IF read = "ok" THEN body ELSE "Unknown error"

\* where make_request goes once it has the response's status
MrAfterStatus(status) == IF is_success(status) THEN "mr_json" ELSE "mr_text"

\* make_request sending again after a 429
MrAfterHttpError_retry(status) ==
    IF status = TOO_MANY_REQUESTS THEN "mr_send" ELSE "mr_done"

\* where make_request goes once it has built the HttpError: it returns
MrAfterHttpError(status) == "mr_done"

\* let json = response.json().await?; Ok(json)
JsonResult(read, body) ==
    IF read # "ok"
    THEN Err(RequestError(ReqwestError("body", read = "timeout", FALSE)))
    ELSE IF ParseJson(body).ok
         THEN Ok(ParseJson(body).val)
         ELSE Err(RequestError(ReqwestError("decode", FALSE, FALSE)))

\* a map_err that turns get_order_info's errors into a value
MapErr_swallow(op, r) ==
    IF op = "get_order_info" /\ ~r.ok THEN Ok(JNull) ELSE r

\* .map_err(|e| { error!(..); e }) of every operation
MapErr(op, r) == r

(***************************************************************************)
(* get_prices' checks before any request, and connect's                    *)
(***************************************************************************)
allowed_types == <<"trades", "quotes", "bars">>

\* format!("Invalid price type: {}. Allowed: {}", price_type, allowed_types.join(", "))
InvalidPriceTypeMessage(price_type) ==
    <<"Invalid price type: ", price_type, ". Allowed: ">>
        \o Join(allowed_types, ", ")

\* get_prices testing the empty list before the price type
GetPricesLocal_empty_first(assets, price_type) ==
    IF Len(assets) = 0 THEN Some(Ok(JObject(EmptyMap)))
    ELSE IF ~Contains(allowed_types, price_type)
    THEN Some(Err(Other(InvalidPriceTypeMessage(price_type))))
    ELSE None

\* get_prices without the empty-list return
GetPricesLocal_no_short_circuit(assets, price_type) ==
    IF ~Contains(allowed_types, price_type)
    THEN Some(Err(Other(InvalidPriceTypeMessage(price_type))))
    ELSE None

\* the result get_prices returns without a request, or None to go on
GetPricesLocal(assets, price_type) ==
    IF ~Contains(allowed_types, price_type)
    THEN Some(Err(Other(InvalidPriceTypeMessage(price_type))))
    ELSE IF Len(assets) = 0 THEN Some(Ok(JObject(EmptyMap)))
    ELSE None

\* HeaderValue::from_str: visible ASCII only; the sample characters that are not
HeaderValueOk(s) == \A i \in 1..Len(s) : s[i] # "\n"

\* connect, up to the construction of the Client value: the error it returns
\* early, or None
ConnectLocal(api_key, api_secret, build_ok) ==
    IF ~validate_keys(api_key, api_secret) THEN Some(Err(InvalidKeyFormat))
    ELSE IF ~HeaderValueOk(api_key) \/ ~HeaderValueOk(api_secret)
    THEN Some(Err(InvalidKeyFormat))
    ELSE IF ~build_ok
    THEN Some(Err(RequestError(ReqwestError("builder", FALSE, FALSE))))
    ELSE None

(***************************************************************************)
(* The calls                                                               *)
(***************************************************************************)
AssetLists == {<<>>, <<"AAPL">>, <<"AAPL", "MSFT">>, <<"MSFT", "AAPL">>}
PriceTypeStrings == {"trades", "quotes", "bars", "invalid_type", "Trades", ""}
OrderInputs ==
    [symbol : {"AAPL"}, qty : {10}, side : {"buy", "sell"},
     order_type : {None, Some("limit")}, time_in_force : {None, Some("day")}]
OrderIds == {"order-id-123"}

AtRest == pc = "idle"

\* the state of a call that has just begun
Begin(frames, next_pc) ==
    /\ stack' = frames
    /\ pc' = next_pc
    /\ req' = NoReq
    /\ sent' = 0
    /\ resp' = NoResp
    /\ body_read' = "none"
    /\ timed_out' = FALSE
    /\ mr_result' = NoResult
    /\ op_result' = NoResult

\* a client built field by field, as the tests build theirs
CreateTestClient(base, data) ==
    /\ AtRest
    /\ client' = [built |-> TRUE, base_url |-> base, data_url |-> data,
                  info |-> JObject([k \in {"status"} |-> JString("ACTIVE")])]
    /\ Begin(<<>>, "idle")
    /\ constructed' = FALSE
    /\ result' = NoResult
    /\ UNCHANGED <<wrapperVars, newVars, stateVars, calls>>

Connect(api_key, api_secret, build_ok) ==
    /\ AtRest
    /\ LET early == ConnectLocal(api_key, api_secret, build_ok)
           me == [op |-> "connect", api_key |-> api_key,
                  api_secret |-> api_secret]
           alpaca == [built |-> TRUE, base_url |-> BaseUrl,
                      data_url |-> DataUrl, info |-> JNull]
       IN IF early.some
          THEN /\ Begin(<<me>>, "returned")
               /\ constructed' = FALSE
               /\ result' = early.v
          ELSE /\ Begin(<<me, [op |-> "get_account", self |-> alpaca]>>,
                        "mr_url")
               /\ constructed' = TRUE
               /\ result' = NoResult
    /\ UNCHANGED <<client, wrapperVars, newVars, stateVars, calls>>

\* get_account, get_positions, place_order, get_order_info: straight to
\* make_request
CallOperation(f) ==
    /\ AtRest
    /\ client.built
    /\ Begin(<<f @@ [self |-> client]>>, "mr_url")
    /\ constructed' = FALSE
    /\ result' = NoResult
    /\ UNCHANGED <<client, wrapperVars, newVars, stateVars, calls>>

GetPrices(assets, price_type) ==
    /\ AtRest
    /\ client.built
    /\ LET early == GetPricesLocal(assets, price_type)
           me == [op |-> "get_prices", assets |-> assets,
                  price_type |-> price_type, self |-> client]
       IN IF early.some
          THEN /\ Begin(<<me>>, "returned")
               /\ result' = early.v
          ELSE /\ Begin(<<me>>, "mr_url")
               /\ result' = NoResult
    /\ constructed' = FALSE
    /\ UNCHANGED <<client, wrapperVars, newVars, stateVars, calls>>

(***************************************************************************)
(* make_request                                                            *)
(***************************************************************************)
Top == stack[Len(stack)]

MrBuild ==
    /\ pc = "mr_url"
    /\ LET a == MakeRequestArgs(Top)
           url == UrlParse(a.base_url, a.endpoint)
       IN IF url.ok
          THEN /\ req' = [method |-> a.method, url |-> url.val,
                          query |-> a.query, body |-> a.body,
                          timeout |-> UnwrapOr(a.timeout, DefaultTimeoutSecs)]
               /\ pc' = "mr_send"
               /\ UNCHANGED mr_result
          ELSE /\ mr_result' = Err(Other(url.err))
               /\ pc' = "mr_done"
               /\ UNCHANGED req
    /\ UNCHANGED <<body_read, client, stack, sent, resp, timed_out,
                   constructed, op_result, result, wrapperVars,
                   newVars, stateVars, calls>>

\* request.send(): the request leaves
MrSend ==
    /\ pc = "mr_send"
    /\ sent' = sent + 1
    /\ pc' = "mr_wait"
    /\ UNCHANGED <<body_read, client, stack, req, resp, timed_out,
                   constructed, mr_result, op_result, result, wrapperVars,
                   newVars, stateVars, calls>>

\* send() fails: the timeout expires, the connection fails, or anything else
MrSendFail(isTimeout, isConnect) ==
    /\ pc = "mr_wait"
    /\ mr_result' = Err(ClassifySendError(
                            ReqwestError("send", isTimeout, isConnect)))
    /\ timed_out' = isTimeout
    /\ pc' = "mr_done"
    /\ UNCHANGED <<body_read, client, stack, req, sent, resp, constructed,
                   op_result, result, wrapperVars, newVars, stateVars,
                   calls>>

\* send() returns a response: its status line and headers have arrived
MrResponse(status, body) ==
    /\ pc = "mr_wait"
    /\ resp' = [status |-> status, body |-> body]
    /\ pc' = MrAfterStatus(status)
    /\ UNCHANGED <<body_read, client, stack, req, sent, timed_out,
                   constructed, mr_result, op_result, result, wrapperVars,
                   newVars, stateVars, calls>>

\* a status that is no success: read the body as text, return the HttpError
MrText(read) ==
    /\ pc = "mr_text"
    /\ mr_result' = Err(HttpError(resp.status, ErrorMessage(read, resp.body)))
    /\ body_read' = read
    /\ timed_out' = (read = "timeout")
    /\ pc' = MrAfterHttpError(resp.status)
    /\ UNCHANGED <<client, stack, req, sent, resp, constructed, op_result,
                   result, wrapperVars, newVars, stateVars, calls>>

\* a success status: read the body and decode it
MrJson(read) ==
    /\ pc = "mr_json"
    /\ mr_result' = JsonResult(read, resp.body)
    /\ body_read' = read
    /\ timed_out' = (read = "timeout")
    /\ pc' = "mr_done"
    /\ UNCHANGED <<client, stack, req, sent, resp, constructed, op_result,
                   result, wrapperVars, newVars, stateVars, calls>>

\* a get_account that caches what it fetched
ClientAfterReturn_refresh(self, op, r) ==
    IF op = "get_account" /\ r.ok THEN [self EXCEPT !.info = r.val] ELSE self

\* the Client an operation leaves behind: every operation takes &self
ClientAfterReturn(self, op, r) == self

\* the operation's .await.map_err(..): it returns to its caller
OpReturn ==
    /\ pc = "mr_done"
    /\ op_result' = MapErr(Top.op, mr_result)
    /\ IF Len(stack) > 1
       THEN /\ pc' = "connect_resume"
            /\ UNCHANGED <<result, client>>
       ELSE /\ pc' = "returned"
            /\ result' = MapErr(Top.op, mr_result)
            /\ client' = ClientAfterReturn(client, Top.op, mr_result)
    /\ UNCHANGED <<body_read, stack, req, sent, resp, timed_out,
                   constructed, mr_result, wrapperVars, newVars, stateVars,
                   calls>>

\* a connect that returns its Client whatever the account fetch gave
ConnectResult_keep_client(fetched) == Ok("client")

\* what connect returns after get_account().await?: the fetch's error, or
\* Ok(alpaca)
ConnectResult(fetched) ==
    IF fetched.ok THEN Ok("client") ELSE Err(fetched.err)

\* alpaca.info = alpaca.get_account().await?; Ok(alpaca)
ConnectResume ==
    /\ pc = "connect_resume"
    /\ result' = ConnectResult(op_result)
    /\ IF op_result.ok
       THEN client' = [Top.self EXCEPT !.info = op_result.val]
       ELSE UNCHANGED client
    /\ pc' = "returned"
    /\ UNCHANGED <<body_read, stack, req, sent, resp, timed_out, constructed,
                   mr_result, op_result, wrapperVars, newVars, stateVars,
                   calls>>

\* the caller has the result; the call's locals are gone
Finish ==
    /\ pc = "returned"
    /\ Begin(<<>>, "idle")
    /\ constructed' = FALSE
    /\ result' = NoResult
    /\ UNCHANGED <<client, wrapperVars, newVars, stateVars, calls>>

(***************************************************************************)
(* PriceType                                                               *)
(***************************************************************************)
PriceTypes == {"Trades", "Quotes", "Bars"}

\* impl fmt::Display for PriceType
to_string(p) ==
    CASE p = "Trades" -> "trades"
      [] p = "Quotes" -> "quotes"
      [] p = "Bars" -> "bars"

\* a parser that takes any letter case and falls back to Trades
from_str_lenient(s) ==
    CASE s \in {"trades", "Trades", "TRADES"} -> Ok("Trades")
      [] s \in {"quotes", "Quotes", "QUOTES"} -> Ok("Quotes")
      [] s \in {"bars", "Bars", "BARS"} -> Ok("Bars")
      [] OTHER -> Ok("Trades")

\* impl FromStr for PriceType
from_str(s) ==
    CASE s = "trades" -> Ok("Trades")
      [] s = "quotes" -> Ok("Quotes")
      [] s = "bars" -> Ok("Bars")
      [] OTHER -> Err(<<"Invalid value: ", s,
                        ". Expected one of: trades, quotes, bars">>)

(***************************************************************************)
(* Calls of the pure functions: validate_keys, PriceType's conversions     *)
(***************************************************************************)
\* how many of the latest calls the history keeps
MaxCalls == 2

\* the strings PriceType::from_str is given
FromStrInputs ==
    {"trades", "quotes", "bars", "Trades", "BARS", "quote", " trades",
     "invalid_type", ""}

Record(call) ==
    /\ calls' = Append(IF Len(calls) = MaxCalls THEN Tail(calls) ELSE calls,
                       call)
    /\ UNCHANGED <<clientVars, wrapperVars, newVars, stateVars>>

\* AlpacaClient::validate_keys(api_key, api_secret)
ValidateKeys(api_key, api_secret) ==
    Record([fn |-> "validate_keys", api_key |-> api_key,
            api_secret |-> api_secret,
            returned |-> validate_keys(api_key, api_secret)])

\* PriceType::from_str(s)
FromStr(s) == Record([fn |-> "from_str", s |-> s, returned |-> from_str(s)])

\* PriceType::from_str(&p.to_string())
ToStringFromStr(p) ==
    Record([fn |-> "to_string, from_str", p |-> p, text |-> to_string(p),
            returned |-> from_str(to_string(p))])

(***************************************************************************)
(* f64, str::parse::<f64> and AtomicF64                                    *)
(*                                                                         *)
(* A finite f64 is the integer number of its thousandths.  A string that   *)
(* is parsed as a number is a sequence of one-character strings.           *)
(***************************************************************************)
Finite(milli) == [class |-> "finite", milli |-> milli]
NaN == [class |-> "nan"]
Infinity(neg) == [class |-> "inf", neg |-> neg]
is_finite(x) == x.class = "finite"

AsciiLower(c) ==
    CASE c = "I" -> "i" [] c = "N" -> "n" [] c = "F" -> "f" [] c = "T" -> "t"
      [] c = "Y" -> "y" [] c = "A" -> "a" [] OTHER -> c

DigitValue(c) == CHOOSE n \in 0..9 : ToString(n) = c

RECURSIVE DigitsValue(_)
DigitsValue(ds) ==
    IF Len(ds) = 0 THEN 0
    ELSE DigitsValue(SubSeq(ds, 1, Len(ds) - 1)) * 10 + DigitValue(ds[Len(ds)])

\* a decimal without exponent: digits with at most one point, a digit at least
IsDecimal(body) ==
    /\ \A i \in 1..Len(body) : body[i] \in Digit \cup {"."}
    /\ Cardinality({i \in 1..Len(body) : body[i] = "."}) <= 1
    /\ \E i \in 1..Len(body) : body[i] \in Digit

\* the thousandths of a decimal
DecimalMilli(body) ==
    LET dots == {i \in 1..Len(body) : body[i] = "."}
        dot == IF dots = {} THEN Len(body) + 1 ELSE CHOOSE i \in dots : TRUE
        frac == SubSeq(body, dot + 1, Len(body)) \o <<"0", "0", "0">>
    IN DigitsValue(SubSeq(body, 1, dot - 1)) * 1000
         + DigitsValue(SubSeq(frac, 1, 3))

\* <f64 as FromStr>::from_str, for strings without an exponent: an optional
\* sign, then "inf", "infinity" or "nan" in any case, or a decimal
parse_f64(s) ==
    LET signed == Len(s) > 0 /\ s[1] \in {"+", "-"}
        neg == signed /\ s[1] = "-"
        body == IF signed THEN Tail(s) ELSE s
        low == [i \in 1..Len(body) |-> AsciiLower(body[i])]
    IN IF low \in {<<"i", "n", "f">>,
                   <<"i", "n", "f", "i", "n", "i", "t", "y">>}
       THEN Ok(Infinity(neg))
       ELSE IF low = <<"n", "a", "n">> THEN Ok(NaN)
       ELSE IF IsDecimal(body)
       THEN Ok(Finite((IF neg THEN -1 ELSE 1) * DecimalMilli(body)))
       ELSE Err("ParseFloatError")

\* Result::ok, Option::and_then, Option::unwrap_or
ResultOk(r) == IF r.ok THEN Some(r.val) ELSE None

\* the bit patterns of the f64 values the model meets, as four 16-bit words
F64Bits ==
    { <<Finite(0), <<0, 0, 0, 0>> >>,
      <<Finite(250000000), <<16654, 33920, 0, 0>> >>,
      <<Finite(1000500), <<16527, 17408, 0, 0>> >>,
      <<NaN, <<32760, 0, 0, 0>> >>,
      <<Infinity(FALSE), <<32752, 0, 0, 0>> >>,
      <<Infinity(TRUE), <<65520, 0, 0, 0>> >> }

\* f64::to_bits
to_bits(x) == (CHOOSE p \in F64Bits : p[1] = x)[2]

\* f64::from_bits
from_bits(b) ==
    IF \E p \in F64Bits : p[2] = b
    THEN (CHOOSE p \in F64Bits : p[2] = b)[1]
    ELSE [class |-> "bits", words |-> b]

\* serde_json: Value::Array, Value::Number; value[key]; Value::as_str
JArray(elems) == [kind |-> "Array", elems |-> elems]
JNumber(n) == [kind |-> "Number", n |-> n]

Index(value, key) ==
    IF value.kind = "Object" /\ key \in DOMAIN value.map
    THEN value.map[key]
    ELSE JNull

Get(value, key) ==
    IF value.kind = "Object" /\ key \in DOMAIN value.map
    THEN Some(value.map[key])
    ELSE None

as_str(value) == IF value.kind = "String" THEN Some(value.s) ELSE None

(***************************************************************************)
(* The Wrapper: update_prices                                              *)
(***************************************************************************)
NoWrapper == [none |-> TRUE]
TestAssets == <<"AAPL", "MSFT">>
\* the struct literal of new: the Wrapper's plain fields
WrapperValue(a) == [assets |-> a, initial_position |-> None]
\* AlpacaWrapper.assets
assets == wrapper.assets
\* a symbol the server may name that the Wrapper does not track
Untracked == "TSLA"

items == <<"trades", "quotes", "bars">>
ItemSet == {items[i] : i \in 1..Len(items)}

\* the raw payload the server gives for a price type and a symbol
Payload(label, symbol) ==
    JObject([k \in {"T", "S"} |-> IF k = "T" THEN JString(label)
                                               ELSE JString(symbol)])

PriceMap(label, symbols) == [a \in symbols |-> Payload(label, a)]

\* what the task of one item may end with: get_prices' result
TaskOutcomes(item) ==
    { Ok(JObject([k \in {item} |->
                        JObject(PriceMap(item, {"AAPL", "MSFT"}))])),
      Ok(JObject([k \in {item} |->
                        JObject(PriceMap(item, {"AAPL", "MSFT", Untracked}))])),
      Ok(JObject([k \in {item} |-> JObject(PriceMap(item, {"AAPL"}))])),
      Ok(JObject([k \in {"candles"} |->
                        JObject(PriceMap(item, {"AAPL"}))])),
      Ok(JObject([k \in {item} |-> JString("n/a")])),
      Ok(JNull),
      Err(Timeout) }

\* three responses as the claim about the merged table wants them: each task
\* succeeded with an object keyed by its own type that covers every asset
Covers(out, item) ==
    /\ out.ok
    /\ out.val.kind = "Object"
    /\ DOMAIN out.val.map = {item}
    /\ out.val.map[item].kind = "Object"
    /\ \A i \in 1..Len(assets) : assets[i] \in DOMAIN out.val.map[item].map

NoTable == [none |-> TRUE]
EmptyTable == [a \in {} |-> EmptyMap]

\* the entries of one response that the merge inserts: <<asset, label, prices>>
Insertions(value) ==
    IF value.kind # "Object" THEN {}
    ELSE { <<a, label, value.map[label].map[a]>> :
             <<label, a>> \in
               { la \in (DOMAIN value.map) \X {"AAPL", "MSFT", Untracked} :
                   /\ value.map[la[1]].kind = "Object"
                   /\ la[2] \in DOMAIN value.map[la[1]].map
                   /\ Contains(assets, la[2]) } }

\* PriceType::from_str(price_name.as_str()).unwrap() panics
MergePanics(value) == \E ins \in Insertions(value) : ~from_str(ins[2]).ok

\* a loop body that replaces an asset's entry by what this response gives
Merge_replace_entry(prices, value) ==
    [a \in DOMAIN prices |->
        LET new == { ins \in Insertions(value) : ins[1] = a }
            keys == { from_str(ins[2]).val : ins \in new }
        IN IF keys = {} THEN prices[a]
           ELSE [k \in keys |->
                   (CHOOSE ins \in new : from_str(ins[2]).val = k)[3]]]

\* asset_prices after the loop body has run on one response
Merge(prices, value) ==
    [a \in DOMAIN prices |->
        LET new == { ins \in Insertions(value) : ins[1] = a }
            keys == { from_str(ins[2]).val : ins \in new }
        IN [k \in DOMAIN prices[a] \cup keys |->
              IF k \in keys
              THEN (CHOOSE ins \in new : from_str(ins[2]).val = k)[3]
              ELSE prices[a][k]]]

\* a loop that merges into the shared table itself
SharedAfterMerge_in_place(shared, merged) == merged

\* the shared table while the loop merges a response: the loop writes
\* asset_prices, a local
SharedAfterMerge(shared, merged) == shared

\* a store that keeps only the assets some response has prices for
StoredTable_mentioned_only(local_last_prices, merged) ==
    [a \in {b \in DOMAIN merged : DOMAIN merged[b] # {}} |-> merged[a]]

\* *prices_guard = last_prices
StoredTable(local_last_prices, merged) == local_last_prices

NoLock == [writer |-> FALSE, readers |-> 0, poisoned |-> FALSE]

NumReaders == 1
Readers == 1..NumReaders

AssetSet == {assets[i] : i \in 1..Len(assets)}

\* The steps of AlpacaWrapper::new
\* new with the snapshot taken before the price cycle
NewOrder_snapshot_before_prices ==
    <<"assert", "connect", "update_cash", "update_positions", "snapshot",
      "update_prices">>

\* new with the snapshot taken before the first position refresh
NewOrder_snapshot_before_positions ==
    <<"assert", "connect", "update_cash", "snapshot", "update_positions",
      "update_prices">>

\* new with the assertion after connect
NewOrder_connect_first ==
    <<"connect", "assert", "update_cash", "update_positions",
      "update_prices", "snapshot">>

\* the statements of new, in program order
NewOrder ==
    <<"assert", "connect", "update_cash", "update_positions",
      "update_prices", "snapshot">>

NewSteps == {NewOrder[i] : i \in 1..Len(NewOrder)}
StepAfter(step) ==
    LET i == CHOOSE j \in 1..Len(NewOrder) : NewOrder[j] = step
    IN IF i = Len(NewOrder) THEN "ready" ELSE NewOrder[i + 1]

Begin_(step) == <<"begin", step>>
End_(step, book) == <<"end", step, book>>

\* what the thread in new does as it enters, leaves or panics in a step;
\* nothing when the step is run by another thread
MainBegins(step) ==
    IF main_pc = step THEN trace' = Append(trace, Begin_(step))
                      ELSE UNCHANGED trace
MainEnds(step, book) ==
    IF main_pc = step
    THEN /\ main_pc' = StepAfter(step)
         /\ trace' = Append(trace, End_(step, book))
    ELSE UNCHANGED <<main_pc, trace>>
MainPanics(step) ==
    IF main_pc = step
    THEN /\ main_pc' = "panicked"
         /\ wrapper' = NoWrapper
    ELSE UNCHANGED <<main_pc, wrapper>>

\* update_prices up to the loop: spawn one task per item, set up the locals
UpSpawn ==
    /\ up_pc \in {"idle", "done", "panicked"}
    /\ tasks' = [i \in ItemSet |-> [state |-> "running"]]
    /\ finished' = <<>>
    /\ local_prices' = EmptyTable
    /\ asset_prices' = [a \in AssetSet |-> EmptyMap]
    /\ up_pc' = "joining"
    /\ MainBegins("update_prices")
    /\ UNCHANGED <<last_prices, prices_lock, rd_pc, observed, committed,
                   clientVars, wrapper, new_arg, main_pc, requests,
                   stateVars, calls>>

\* a spawned task runs get_prices to its end on a worker thread
TaskFinish(item, out) ==
    /\ tasks[item].state = "running"
    /\ tasks' = [tasks EXCEPT ![item] = [state |-> "finished", out |-> out]]
    /\ finished' = Append(finished, item)
    /\ requests' = IF main_pc = "update_prices" THEN requests + 1
                                                ELSE requests
    /\ UNCHANGED <<last_prices, prices_lock, up_pc, asset_prices,
                   local_prices, rd_pc, observed, committed, clientVars,
                   wrapper, new_arg, main_pc, trace, stateVars, calls>>

\* one turn of the loop: join_next yields the next completed task
UpJoinNext ==
    /\ up_pc = "joining"
    /\ finished # <<>>
    /\ LET item == Head(finished)
           out == tasks[item].out
       IN IF ~out.ok \/ MergePanics(out.val)
          THEN \* unwrap panics; unwinding drops the JoinSet, which aborts
               \* the tasks still in it
               /\ up_pc' = "panicked"
               /\ tasks' = [i \in ItemSet |->
                              IF i = item
                              THEN [tasks[i] EXCEPT !.state = "joined"]
                              ELSE IF tasks[i].state = "running"
                              THEN [state |-> "aborted"]
                              ELSE IF tasks[i].state = "finished"
                              THEN [tasks[i] EXCEPT !.state = "dropped"]
                              ELSE tasks[i]]
               /\ finished' = <<>>
               /\ MainPanics("update_prices")
               /\ UNCHANGED <<asset_prices, last_prices>>
          ELSE /\ asset_prices' = Merge(asset_prices, out.val)
               /\ last_prices' =
                      SharedAfterMerge(last_prices,
                                       Merge(asset_prices, out.val))
               /\ tasks' = [tasks EXCEPT ![item].state = "joined"]
               /\ finished' = Tail(finished)
               /\ UNCHANGED <<up_pc, main_pc, wrapper>>
    /\ UNCHANGED <<prices_lock, local_prices, rd_pc, observed, committed,
                   clientVars, new_arg, trace, requests, stateVars, calls>>

\* a loop that ends once it has taken one outcome
JoinSetEmpty_after_first(ts) == \E i \in ItemSet : ts[i].state = "joined"

\* no task is left in the JoinSet
JoinSetEmpty(ts) == \A i \in ItemSet : ts[i].state = "joined"

\* join_next yields None: the JoinSet is empty
UpJoinDone ==
    /\ up_pc = "joining"
    /\ JoinSetEmpty(tasks)
    /\ up_pc' = "locking"
    /\ UNCHANGED <<last_prices, prices_lock, tasks, finished, asset_prices,
                   local_prices, rd_pc, observed, committed, clientVars,
                   newVars, stateVars, calls>>

\* self.last_prices.write(): exclusive, so it waits for readers to leave
UpWriteLock ==
    /\ up_pc = "locking"
    /\ ~prices_lock.writer
    /\ prices_lock.readers = 0
    /\ prices_lock' = [prices_lock EXCEPT !.writer = TRUE]
    /\ up_pc' = "storing"
    /\ UNCHANGED <<last_prices, tasks, finished, asset_prices, local_prices,
                   rd_pc, observed, committed, clientVars, newVars, stateVars,
                   calls>>

UpStore ==
    /\ up_pc = "storing"
    /\ last_prices' = StoredTable(local_prices, asset_prices)
    /\ committed' = committed \cup {StoredTable(local_prices, asset_prices)}
    /\ up_pc' = "unlocking"
    /\ UNCHANGED <<prices_lock, tasks, finished, asset_prices, local_prices,
                   rd_pc, observed, clientVars, newVars, stateVars, calls>>

\* the guard is dropped as update_prices returns
UpUnlock ==
    /\ up_pc = "unlocking"
    /\ prices_lock' = [prices_lock EXCEPT !.writer = FALSE]
    /\ up_pc' = "done"
    /\ MainEnds("update_prices", positions)
    /\ UNCHANGED <<last_prices, tasks, finished, asset_prices, local_prices,
                   rd_pc, observed, committed, clientVars, wrapper, new_arg,
                   requests, stateVars, calls>>

\* a reader of the PriceTable: last_prices.read(), a copy, the guard dropped
RdLock(r) ==
    /\ rd_pc[r] = "idle"
    /\ ~prices_lock.writer
    /\ prices_lock' = [prices_lock EXCEPT !.readers = @ + 1]
    /\ rd_pc' = [rd_pc EXCEPT ![r] = "locked"]
    /\ UNCHANGED <<last_prices, up_pc, tasks, finished, asset_prices,
                   local_prices, observed, committed, clientVars,
                   newVars, stateVars, calls>>

RdCopy(r) ==
    /\ rd_pc[r] = "locked"
    /\ observed' = [observed EXCEPT ![r] = last_prices]
    /\ rd_pc' = [rd_pc EXCEPT ![r] = "copied"]
    /\ UNCHANGED <<last_prices, prices_lock, up_pc, tasks, finished,
                   asset_prices, local_prices, committed, clientVars,
                   newVars, stateVars, calls>>

RdUnlock(r) ==
    /\ rd_pc[r] = "copied"
    /\ prices_lock' = [prices_lock EXCEPT !.readers = @ - 1]
    /\ rd_pc' = [rd_pc EXCEPT ![r] = "idle"]
    /\ UNCHANGED <<last_prices, up_pc, tasks, finished, asset_prices,
                   local_prices, observed, committed, clientVars,
                   newVars, stateVars, calls>>

(***************************************************************************)
(* The Wrapper: update_cash_async, update_positions_async                  *)
(***************************************************************************)
\* thread 0 constructs the Wrapper; the others call refreshes on it
Main == 0
NumCashThreads == 2
CashThreads == 1..NumCashThreads
NumUpdaters == 2
Updaters == 1..NumUpdaters

Chars100 == <<"1", "0", "0", ".", "0">>
Chars250000 == <<"2", "5", "0", "0", "0", "0", ".", "0", "0">>
Chars15000 == <<"1", "5", "0", "0", "0", ".", "0", "0">>
Chars145 == <<"1", "4", "5", ".", "5">>
Chars150 == <<"1", "5", "0">>

\* what get_account_info may end with
AccountOutcomes ==
    { Ok(JObject([cash |-> JString(Chars250000)])),
      Ok(JObject([cash |-> JString(<<"a", "b", "c">>)])),
      Ok(JObject([cash |-> JString(<<"N", "a", "N">>)])),
      Ok(JObject([cash |-> JString(<<"i", "n", "f">>)])),
      Ok(JObject([cash |-> JNumber(250000)])),
      Ok(JObject([status |-> JString("ACTIVE")])),
      Err(Timeout) }

\* expect("Couldn't get account info"), expect("Couldn't get cash ...")
CashPanics(out) == ~out.ok \/ ~Get(out.val, "cash").some

\* .as_str().unwrap_or("0").parse::<f64>().unwrap_or(0.0)
CashValue(out) ==
    LET s == UnwrapOr(as_str(Get(out.val, "cash").v), <<"0">>)
    IN UnwrapOr(ResultOk(parse_f64(s)), Finite(0))

\* a store that writes the low half of the storage only
AtomicStore_low_half(old, new) == <<old[1], old[2], new[3], new[4]>>

\* AtomicU64::store: the whole word at once
AtomicStore(old, new) == new

\* a position as the server gives it
ServerPosition(symbol) ==
    JObject([symbol |-> JString(symbol),
             qty_available |-> JString(Chars100),
             market_value |-> JString(Chars15000),
             avg_entry_price |-> JString(Chars145),
             current_price |-> JString(Chars150)])

\* a position with a field absent, one that is a number, one that is no
\* number's text, and an empty one
BadFieldsPosition(symbol) ==
    JObject([symbol |-> JString(symbol),
             market_value |-> JNumber(12500),
             avg_entry_price |-> JString(<<"a", "b", "c">>),
             current_price |-> JString(<<>>)])

\* what get_positions may end with
PositionsOutcomes ==
    { Ok(JArray(<<ServerPosition("AAPL"), BadFieldsPosition("MSFT")>>)),
      Ok(JArray(<<>>)),
      Ok(ServerPosition("AAPL")),
      Ok(BadFieldsPosition("MSFT")),
      Ok(ServerPosition(Untracked)),
      Ok(JObject([side |-> JString("long")])),
      Err(Timeout) }

\* Result::into_iter: the Ok value once, or nothing
ResultIntoIter(r) == IF r.ok THEN <<r.val>> ELSE <<>>

\* position["symbol"].as_str().unwrap() panics on one of the items
PositionsPanics(its) ==
    \E i \in 1..Len(its) : ~as_str(Index(its[i], "symbol")).some

\* the closure parse_value
parse_value(position, key) ==
    LET o == as_str(Index(position, key))
    IN IF o.some THEN UnwrapOr(ResultOk(parse_f64(o.v)), Finite(0))
       ELSE Finite(0)

\* the Position built from one item
PositionOf(position) ==
    [qty |-> parse_value(position, "qty_available"),
     value |-> parse_value(position, "market_value"),
     entry |-> parse_value(position, "avg_entry_price"),
     price |-> parse_value(position, "current_price")]

SymbolOf(position) == as_str(Index(position, "symbol")).v

\* a filter that lets every symbol through
Tracked_any(symbol) == TRUE

\* self.assets.contains(&symbol)
Tracked(symbol) == Contains(assets, symbol)

EmptyBook == [a \in {} |-> PositionOf(JNull)]

\* filter_map(..).collect(): of two items with one symbol the later stays
NewPositions(its) ==
    LET kept == {i \in 1..Len(its) : Tracked(SymbolOf(its[i]))}
        last(a) == CHOOSE i \in kept :
                      /\ SymbolOf(its[i]) = a
                      /\ \A j \in kept : SymbolOf(its[j]) = a => j <= i
    IN [a \in {SymbolOf(its[i]) : i \in kept} |-> PositionOf(its[last(a)])]

\* a store that adds the new entries to the old book
StoredBook_merge(old, new) ==
    [a \in DOMAIN old \cup DOMAIN new |->
        IF a \in DOMAIN new THEN new[a] ELSE old[a]]

\* *positions_guard = new_positions
StoredBook(old, new) == new

NoLocal == [none |-> TRUE]

(***************************************************************************)
(* The Wrapper: new                                                        *)
(***************************************************************************)
\* the asset lists new is called with
NewArgs == {<<>>, <<"AAPL">>, <<"AAPL", "MSFT">>}

\* what AlpacaClient::connect may end with
ConnectOutcomes ==
    { Ok("client"), Err(InvalidKeyFormat),
      Err(HttpError(401, "Unauthorized")), Err(Timeout) }

NewCall(a) ==
    /\ main_pc = "init"
    /\ new_arg' = a
    /\ main_pc' = NewOrder[1]
    /\ UNCHANGED <<wrapper, trace, requests, clientVars, wrapperVars,
                   stateVars, calls>>

\* assert!(!assets.is_empty(), ..)
NewAssert ==
    /\ main_pc = "assert"
    /\ IF new_arg = <<>>
       THEN /\ trace' = Append(trace, Begin_("assert"))
            /\ MainPanics("assert")
       ELSE /\ trace' = trace \o <<Begin_("assert"),
                                   End_("assert", positions)>>
            /\ main_pc' = StepAfter("assert")
            /\ UNCHANGED wrapper
    /\ UNCHANGED <<new_arg, requests, clientVars, wrapperVars, stateVars, calls>>

\* connect(..).unwrap(), the runtime, the struct literal
NewConnect(out) ==
    /\ main_pc = "connect"
    /\ requests' = IF out = Err(InvalidKeyFormat) THEN requests
                                                  ELSE requests + 1
    /\ IF out.ok
       THEN /\ wrapper' = WrapperValue(new_arg)
            /\ trace' = trace \o <<Begin_("connect"),
                                   End_("connect", positions)>>
            /\ main_pc' = StepAfter("connect")
       ELSE /\ trace' = Append(trace, Begin_("connect"))
            /\ MainPanics("connect")
    /\ UNCHANGED <<new_arg, clientVars, wrapperVars, stateVars, calls>>

\* wrapper.initial_position = Some(Arc::new(positions.read().unwrap().clone()))
NewSnapshot ==
    /\ main_pc = "snapshot"
    /\ ~positions_lock.writer
    /\ wrapper' = [wrapper EXCEPT !.initial_position = Some(positions)]
    /\ trace' = trace \o <<Begin_("snapshot"), End_("snapshot", positions)>>
    /\ main_pc' = StepAfter("snapshot")
    /\ UNCHANGED <<new_arg, requests, clientVars, wrapperVars, stateVars, calls>>

\* who may call a refresh: the thread in new at that step, any other thread
\* that is in no call once the Wrapper is returned
MayCall(t, step) ==
    /\ main_pc = IF t = Main THEN step ELSE "ready"
    /\ cash_pc[t] = "idle"
    /\ t \in DOMAIN pos_pc => pos_pc[t] = "idle"

\* update_cash_async up to the store: the fetch and the parse
CashFetch(t, out) ==
    /\ MayCall(t, "update_cash")
    /\ requests' = IF t = Main THEN requests + 1 ELSE requests
    /\ IF t = Main THEN trace' = Append(trace, Begin_("update_cash"))
                   ELSE UNCHANGED trace
    /\ IF CashPanics(out)
       THEN /\ cash_pc' = [cash_pc EXCEPT ![t] = "panicked"]
            /\ IF t = Main THEN MainPanics("update_cash")
                           ELSE UNCHANGED <<main_pc, wrapper>>
            /\ UNCHANGED cash_local
       ELSE /\ cash_pc' = [cash_pc EXCEPT ![t] = "storing"]
            /\ cash_local' = [cash_local EXCEPT ![t] = CashValue(out)]
            /\ UNCHANGED <<main_pc, wrapper>>
    /\ UNCHANGED <<new_arg, cash, positions, positions_lock, pos_pc,
                   pos_local, stored, loaded, clientVars, wrapperVars,
                   logged, calls>>

\* self.position.cash.store(cash, Ordering::Relaxed)
CashStore(t) ==
    /\ cash_pc[t] = "storing"
    /\ cash' = AtomicStore(cash, to_bits(cash_local[t]))
    /\ stored' = cash_local[t]
    /\ cash_pc' = [cash_pc EXCEPT ![t] = "idle"]
    /\ cash_local' = [cash_local EXCEPT ![t] = NoLocal]
    /\ IF t = Main THEN MainEnds("update_cash", positions)
                   ELSE UNCHANGED <<main_pc, trace>>
    /\ UNCHANGED <<wrapper, new_arg, requests, positions, positions_lock,
                   pos_pc, pos_local, loaded, clientVars, wrapperVars,
                   logged, calls>>

\* cash.load(Ordering::Relaxed), as the serializer of AtomicF64 calls it
CashLoad(t) ==
    /\ MayCall(t, "update_cash")
    /\ loaded' = [loaded EXCEPT ![t] = [got |-> from_bits(cash),
                                        want |-> stored]]
    /\ UNCHANGED <<cash, positions, positions_lock, cash_pc, cash_local,
                   pos_pc, pos_local, stored, clientVars, wrapperVars,
                   newVars, logged, calls>>

\* update_positions_async up to the lock: the fetch and the new book
PosFetch(t, out) ==
    /\ MayCall(t, "update_positions")
    /\ requests' = IF t = Main THEN requests + 1 ELSE requests
    /\ IF t = Main THEN trace' = Append(trace, Begin_("update_positions"))
                   ELSE UNCHANGED trace
    /\ IF PositionsPanics(ResultIntoIter(out))
       THEN /\ pos_pc' = [pos_pc EXCEPT ![t] = "panicked"]
            /\ pos_local' = [pos_local EXCEPT ![t] =
                               [response |-> out, new_positions |-> EmptyBook]]
            /\ IF t = Main THEN MainPanics("update_positions")
                           ELSE UNCHANGED <<main_pc, wrapper>>
       ELSE /\ pos_pc' = [pos_pc EXCEPT ![t] = "locking"]
            /\ pos_local' = [pos_local EXCEPT ![t] =
                               [response |-> out,
                                new_positions |->
                                    NewPositions(ResultIntoIter(out))]]
            /\ UNCHANGED <<main_pc, wrapper>>
    /\ UNCHANGED <<new_arg, cash, positions, positions_lock, cash_pc,
                   cash_local, stored, loaded, clientVars, wrapperVars,
                   logged, calls>>

\* a match that stores in either arm
AfterWriteLock_ignore_poison(poisoned) == "storing"

\* match self.position.positions.write(): the Ok arm, or the Err arm that a
\* poisoned lock gives
AfterWriteLock(poisoned) == IF poisoned THEN "logging" ELSE "storing"

\* self.position.positions.write(): exclusive; the guard is in the Ok and in
\* the Err alike
PosLock(t) ==
    /\ pos_pc[t] = "locking"
    /\ ~positions_lock.writer
    /\ positions_lock.readers = 0
    /\ positions_lock' = [positions_lock EXCEPT !.writer = TRUE]
    /\ pos_pc' = [pos_pc EXCEPT ![t] = AfterWriteLock(positions_lock.poisoned)]
    /\ UNCHANGED <<cash, positions, cash_pc, cash_local, pos_local, stored,
                   loaded, clientVars, wrapperVars, newVars, logged, calls>>

\* a snapshot that shares its map with the live book
SnapshotAfterStore_shared(snapshot, book) ==
    IF snapshot.some THEN Some(book) ELSE snapshot

\* initial_position after a store into the book: it holds a clone, a map of
\* its own
SnapshotAfterStore(snapshot, book) == snapshot

\* *positions_guard = new_positions
PosStore(t) ==
    /\ pos_pc[t] = "storing"
    /\ positions' = StoredBook(positions, pos_local[t].new_positions)
    /\ wrapper' =
          [wrapper EXCEPT !.initial_position =
              SnapshotAfterStore(@, StoredBook(positions,
                                               pos_local[t].new_positions))]
    /\ pos_pc' = [pos_pc EXCEPT ![t] = "unlocking"]
    /\ UNCHANGED <<cash, positions_lock, cash_pc, cash_local, pos_local,
                   stored, loaded, clientVars, wrapperVars, new_arg, main_pc,
                   trace, requests, logged, calls>>

\* the guard is dropped at the end of the match arm; the call returns
PosUnlock(t) ==
    /\ pos_pc[t] = "unlocking"
    /\ positions_lock' = [positions_lock EXCEPT !.writer = FALSE]
    /\ pos_pc' = [pos_pc EXCEPT ![t] = "idle"]
    /\ pos_local' = [pos_local EXCEPT ![t] = NoLocal]
    /\ IF t = Main THEN MainEnds("update_positions", positions)
                   ELSE UNCHANGED <<main_pc, trace>>
    /\ UNCHANGED <<wrapper, new_arg, requests, cash, positions, cash_pc,
                   cash_local, stored, loaded, clientVars, wrapperVars,
                   logged, calls>>

\* the Err arm: log::error!(..); the guard inside the error is dropped and
\* the call returns
PosLogError(t) ==
    /\ pos_pc[t] = "logging"
    /\ logged' = logged \cup {t}
    /\ positions_lock' = [positions_lock EXCEPT !.writer = FALSE]
    /\ pos_pc' = [pos_pc EXCEPT ![t] = "idle"]
    /\ pos_local' = [pos_local EXCEPT ![t] = NoLocal]
    /\ IF t = Main THEN MainEnds("update_positions", positions)
                   ELSE UNCHANGED <<main_pc, trace>>
    /\ UNCHANGED <<wrapper, new_arg, requests, cash, positions, cash_pc,
                   cash_local, stored, loaded, clientVars, wrapperVars,
                   calls>>

\* a thread that holds the PositionBook's write guard panics: the guard is
\* dropped by the unwinding and the lock is poisoned for good
WriterPanics ==
    /\ ~positions_lock.writer
    /\ positions_lock.readers = 0
    /\ ~positions_lock.poisoned
    /\ positions_lock' = [positions_lock EXCEPT !.poisoned = TRUE]
    /\ UNCHANGED <<cash, positions, cash_pc, cash_local, pos_pc, pos_local,
                   stored, loaded, logged, clientVars, wrapperVars, newVars,
                   calls>>

(***************************************************************************)
(* The specifications                                                      *)
(***************************************************************************)
\* the fields as their constructors leave them
InitFields ==
    /\ client = NoClient
    /\ stack = <<>>
    /\ pc = "idle"
    /\ req = NoReq
    /\ sent = 0
    /\ resp = NoResp
    /\ body_read = "none"
    /\ timed_out = FALSE
    /\ constructed = FALSE
    /\ mr_result = NoResult
    /\ op_result = NoResult
    /\ result = NoResult
    /\ last_prices = EmptyTable
    /\ prices_lock = NoLock
    /\ up_pc = "idle"
    /\ tasks = [i \in ItemSet |-> [state |-> "none"]]
    /\ finished = <<>>
    /\ asset_prices = EmptyTable
    /\ local_prices = EmptyTable
    /\ rd_pc = [r \in Readers |-> "idle"]
    /\ observed = [r \in Readers |-> NoTable]
    /\ committed = {EmptyTable}
    /\ cash = to_bits(Finite(0))
    /\ positions = EmptyBook
    /\ positions_lock = NoLock
    /\ cash_pc = [t \in {Main} \cup CashThreads \cup Updaters |-> "idle"]
    /\ cash_local = [t \in {Main} \cup CashThreads \cup Updaters |-> NoLocal]
    /\ pos_pc = [t \in {Main} \cup Updaters |-> "idle"]
    /\ pos_local = [t \in {Main} \cup Updaters |-> NoLocal]
    /\ stored = Finite(0)
    /\ loaded = [t \in CashThreads |-> NoLocal]
    /\ trace = <<>>
    /\ requests = 0
    /\ logged = {}
    /\ calls = <<>>

\* a Wrapper that new has returned, its aggregates as the struct literal
\* leaves them
Init ==
    /\ InitFields
    /\ new_arg = TestAssets
    /\ wrapper = [WrapperValue(TestAssets) EXCEPT
                     !.initial_position = Some(EmptyBook)]
    /\ main_pc = "ready"

\* before new is called
InitNew ==
    /\ InitFields
    /\ new_arg = <<>>
    /\ wrapper = NoWrapper
    /\ main_pc = "init"

\* the Broker Client, one call at a time
Next ==
    \/ \E base \in TestBases, data \in TestDataBases :
          CreateTestClient(base, data)
    \/ \E k \in Keys, s \in Secrets, build_ok \in BOOLEAN :
          Connect(k, s, build_ok)
    \/ CallOperation([op |-> "get_account"])
    \/ CallOperation([op |-> "get_positions"])
    \/ \E o \in OrderInputs : CallOperation([op |-> "place_order"] @@ o)
    \/ \E id \in OrderIds : CallOperation([op |-> "get_order_info", id |-> id])
    \/ \E a \in AssetLists, t \in PriceTypeStrings : GetPrices(a, t)
    \/ MrBuild
    \/ MrSend
    \/ \E isTimeout \in BOOLEAN, isConnect \in BOOLEAN :
          MrSendFail(isTimeout, isConnect)
    \/ \E status \in Statuses, body \in Bodies : MrResponse(status, body)
    \/ \E read \in BodyReads : MrText(read)
    \/ \E read \in BodyReads : MrJson(read)
    \/ OpReturn
    \/ ConnectResume
    \/ Finish

Spec == Init /\ [][Next]_vars

\* the Wrapper's price fan-out, with readers of the PriceTable
NextWrapper ==
    \/ UpSpawn
    \/ \E item \in ItemSet : \E out \in TaskOutcomes(item) :
          TaskFinish(item, out)
    \/ UpJoinNext
    \/ UpJoinDone
    \/ UpWriteLock
    \/ UpStore
    \/ UpUnlock
    \/ \E r \in Readers : RdLock(r) \/ RdCopy(r) \/ RdUnlock(r)

SpecWrapper == Init /\ [][NextWrapper]_vars

\* the two outcomes of a price task that new's one cycle is run with
NewTaskOutcomes(item) ==
    { Ok(JObject([k \in {item} |->
                        JObject(PriceMap(item, {"AAPL", "MSFT"}))])),
      Err(Timeout) }

\* new, then cash and position refreshes on the Wrapper it returned
NextLifecycle ==
    \/ \E a \in NewArgs : NewCall(a)
    \/ NewAssert
    \/ \E out \in ConnectOutcomes : NewConnect(out)
    \/ \E t \in {Main} \cup Updaters :
          \/ \E out \in AccountOutcomes : CashFetch(t, out)
          \/ CashStore(t)
          \/ \E out \in PositionsOutcomes : PosFetch(t, out)
          \/ PosLock(t)
          \/ PosStore(t)
          \/ PosUnlock(t)
    \/ main_pc = "update_prices" /\ UpSpawn
    \/ \E item \in ItemSet : \E out \in NewTaskOutcomes(item) :
          TaskFinish(item, out)
    \/ UpJoinNext
    \/ UpJoinDone
    \/ UpWriteLock
    \/ UpStore
    \/ UpUnlock
    \/ NewSnapshot

SpecLifecycle == InitNew /\ [][NextLifecycle]_vars

\* threads that refresh and read the Cash of a Wrapper
NextCash ==
    \E t \in CashThreads :
        \/ \E out \in AccountOutcomes : CashFetch(t, out)
        \/ CashStore(t)
        \/ CashLoad(t)

SpecCash == Init /\ [][NextCash]_vars

\* the outcomes the specification of the two locks runs with: every fetch
\* succeeds
LockTaskOutcomes(item) ==
    {Ok(JObject([k \in {item} |-> JObject(PriceMap(item, {"AAPL", "MSFT"}))]))}
LockPositionsOutcomes == {Ok(ServerPosition("AAPL"))}

\* the outcomes the specification of the poisoned lock runs with
PoisonPositionsOutcomes == {Ok(ServerPosition("AAPL")), Err(Timeout)}
PoisonAccountOutcomes ==
    {Ok(JObject([cash |-> JString(Chars250000)])), Err(Timeout)}

\* price refreshes, position refreshes and readers of the PriceTable, all at
\* once on one Wrapper
NextLocks ==
    \/ UpSpawn
    \/ \E item \in ItemSet : \E out \in LockTaskOutcomes(item) :
          TaskFinish(item, out)
    \/ UpJoinNext
    \/ UpJoinDone
    \/ UpWriteLock
    \/ UpStore
    \/ UpUnlock
    \/ \E r \in Readers : RdLock(r) \/ RdCopy(r) \/ RdUnlock(r)
    \/ \E t \in Updaters :
          \/ \E out \in LockPositionsOutcomes : PosFetch(t, out)
          \/ PosLock(t)
          \/ PosStore(t)
          \/ PosUnlock(t)

SpecLocks == Init /\ [][NextLocks]_vars

\* position and cash refreshes on a Wrapper whose PositionBook lock may get
\* poisoned
NextPoison ==
    \/ WriterPanics
    \/ \E t \in Updaters :
          \/ \E out \in PoisonPositionsOutcomes : PosFetch(t, out)
          \/ PosLock(t)
          \/ PosStore(t)
          \/ PosUnlock(t)
          \/ PosLogError(t)
          \/ \E out \in PoisonAccountOutcomes : CashFetch(t, out)
          \/ CashStore(t)

SpecPoison == Init /\ [][NextPoison]_vars

\* cash, position and price refreshes called on a Wrapper that new has
\* returned
NextRefresh ==
    \/ UpSpawn
    \/ \E item \in ItemSet : \E out \in LockTaskOutcomes(item) :
          TaskFinish(item, out)
    \/ UpJoinNext
    \/ UpJoinDone
    \/ UpWriteLock
    \/ UpStore
    \/ UpUnlock
    \/ \E t \in Updaters :
          \/ \E out \in PoisonPositionsOutcomes : PosFetch(t, out)
          \/ PosLock(t)
          \/ PosStore(t)
          \/ PosUnlock(t)
          \/ \E out \in PoisonAccountOutcomes : CashFetch(t, out)
          \/ CashStore(t)

SpecRefresh == Init /\ [][NextRefresh]_vars

\* the pure functions, called with the credentials and the strings above
NextPure ==
    \/ \E k \in Keys, s \in Secrets : ValidateKeys(k, s)
    \/ \E s \in FromStrInputs : FromStr(s)
    \/ \E p \in PriceTypes : ToStringFromStr(p)

SpecPure == Init /\ [][NextPure]_vars

(***************************************************************************)
(* Properties                                                              *)
(***************************************************************************)
InCall(op) == Len(stack) > 0 /\ stack[1].op = op
MrReturned == mr_result # NoResult
Non2xx == resp # NoResp /\ ~(resp.status \in 200..299)
WireTypes == {"trades", "quotes", "bars"}

\* C1: once update_prices has finished with three successful responses, each
\* keyed by its own price type and covering every tracked asset, last_prices
\* has an entry for exactly the tracked assets, each with exactly the three
\* price-type keys.
C1_StoredTableHasEveryAssetAndType ==
    (/\ up_pc = "done"
     /\ \A i \in ItemSet : tasks[i].state = "joined" /\ Covers(tasks[i].out, i))
    => /\ DOMAIN last_prices = AssetSet
       /\ \A a \in DOMAIN last_prices :
             DOMAIN last_prices[a] \in {PriceTypes, WireTypes}

\* C2: the shared PriceTable is at every moment a table that a write-lock
\* section stored whole (or the initial one), also while a merge is under
\* way, and so is every copy a reader took under its read lock.
C2_ReadersSeeOnlyStoredTables ==
    /\ last_prices \in committed
    /\ \A r \in Readers : observed[r] # NoTable => observed[r] \in committed

\* a reader has copied the table while update_prices holds a partial merge
C2_ReadDuringMerge ==
    \E r \in Readers :
        /\ rd_pc[r] = "copied"
        /\ up_pc = "joining"
        /\ \E a \in DOMAIN asset_prices : DOMAIN asset_prices[a] # {}
        /\ \E i \in ItemSet : tasks[i].state = "running"

\* C3: a connect whose key or secret does not match its pattern has returned
\* Err(InvalidKeyFormat), has sent no request and has built no Client.
C3_InvalidKeysNoNetwork ==
    (/\ InCall("connect")
     /\ ~(key_re(stack[1].api_key) /\ secret_re(stack[1].api_secret)))
    => /\ pc = "returned"
       /\ result = Err(InvalidKeyFormat)
       /\ sent = 0
       /\ req = NoReq
       /\ ~constructed

\* connect has rejected a well-formed key paired with a secret that is too short
C3_RejectedSecret ==
    /\ InCall("connect")
    /\ key_re(stack[1].api_key)
    /\ ~secret_re(stack[1].api_secret)
    /\ result = Err(InvalidKeyFormat)

\* C4: make_request, given a response whose status is not 2xx, returns
\* HttpError with that status and the body text, or "Unknown error" when the
\* body could not be read; never a success.
C4_Non2xxIsHttpError ==
    (MrReturned /\ Non2xx)
    => mr_result =
          Err(HttpError(resp.status,
                        IF body_read = "ok" THEN resp.body
                                            ELSE "Unknown error"))

\* make_request has returned the HttpError of a 400 "Bad request"
C4_BadRequest ==
    /\ MrReturned
    /\ resp = [status |-> 400, body |-> "Bad request"]
    /\ mr_result = Err(HttpError(400, "Bad request"))

\* C5: whenever the per-call timeout has expired before the response was
\* fully received, make_request returns Timeout.
C5_ExpiredTimeoutIsTimeout ==
    (MrReturned /\ timed_out) => mr_result = Err(Timeout)

\* C6: a 2xx response whose body is no valid JSON makes make_request return
\* a decode error, a kind that no transport failure uses.
C6_InvalidJsonIsDecodeError ==
    (/\ MrReturned
     /\ resp # NoResp
     /\ resp.status \in 200..299
     /\ body_read = "ok"
     /\ ~ParseJson(resp.body).ok)
    => /\ ~mr_result.ok
       /\ mr_result.err.kind \in {"JsonError", "DecodeError"}

\* C7: a call sends at most one request, whatever its outcome; a 429 comes
\* back as HttpError with status 429 and the body, after that one request.
C7_AtMostOneRequest ==
    /\ sent <= 1
    /\ (MrReturned /\ resp # NoResp /\ resp.status = 429)
       => /\ sent = 1
          /\ ~mr_result.ok
          /\ mr_result.err.kind = "HttpError"
          /\ mr_result.err.status = 429
          /\ body_read = "ok" => mr_result.err.message = resp.body

\* get_account has returned the HttpError of a 429 after its one request
C7_RateLimited ==
    /\ pc = "returned"
    /\ InCall("get_account")
    /\ result = Err(HttpError(429, "Rate limit exceeded"))
    /\ sent = 1

\* C8: get_prices with an empty asset list and any of the three price types
\* returns Ok of the empty object without building or sending a request.
C8_EmptyAssetsShortCircuit ==
    (/\ InCall("get_prices")
     /\ stack[1].assets = <<>>
     /\ stack[1].price_type \in WireTypes)
    => /\ pc = "returned"
       /\ result = Ok(JObject(EmptyMap))
       /\ sent = 0
       /\ req = NoReq

\* get_prices(&[], "bars") has returned
C8_EmptyBars ==
    /\ InCall("get_prices")
    /\ stack[1].assets = <<>>
    /\ stack[1].price_type = "bars"
    /\ pc = "returned"

\* C9: get_prices with a price type outside trades, quotes, bars returns
\* Other with a message that names the rejected value and the three allowed
\* ones, for every asset list, without building or sending a request.
C9_InvalidTypeRejected ==
    (InCall("get_prices") /\ ~(stack[1].price_type \in WireTypes))
    => /\ pc = "returned"
       /\ result =
             Err(Other(<<"Invalid price type: ", stack[1].price_type,
                         ". Allowed: ", "trades", ", ", "quotes", ", ",
                         "bars">>))
       /\ sent = 0
       /\ req = NoReq

\* get_prices(&["AAPL", "MSFT"], "invalid_type") has returned
C9_InvalidType ==
    /\ InCall("get_prices")
    /\ stack[1].assets = <<"AAPL", "MSFT">>
    /\ stack[1].price_type = "invalid_type"
    /\ pc = "returned"

\* C10: every operation returns what make_request returned, value or error,
\* unchanged; connect's caller gets the same error its account fetch got.
C10_OperationsPassThrough ==
    /\ op_result # NoResult => op_result = mr_result
    /\ (pc = "returned" /\ MrReturned /\ ~InCall("connect"))
       => result = mr_result
    /\ (pc = "returned" /\ MrReturned /\ InCall("connect") /\ ~mr_result.ok)
       => result = mr_result

\* get_order_info has returned the Timeout that make_request returned
C10_ErrorForwarded ==
    /\ pc = "returned"
    /\ InCall("get_order_info")
    /\ mr_result = Err(Timeout)
    /\ result = Err(Timeout)

\* a response the merge cannot take as it is: a payload that is no JSON
\* object, or a top-level label that names no PriceType
Malformed(out) ==
    /\ out.ok
    /\ \/ out.val.kind # "Object"
       \/ \E label \in DOMAIN out.val.map :
             \/ ~from_str(label).ok
             \/ out.val.map[label].kind # "Object"

\* C11: once update_prices has taken a response with an unknown top-level
\* label or a payload that is no JSON object out of the JoinSet, the refresh
\* has failed: it never goes on to take the write lock and store a table.
C11_MalformedResponseFailsRefresh ==
    (\E i \in ItemSet : tasks[i].state = "joined" /\ Malformed(tasks[i].out))
    => ~(up_pc \in {"locking", "storing", "unlocking", "done"})

HasSnapshot == wrapper # NoWrapper /\ wrapper.initial_position.some

\* C12: every key of the PositionBook, and of the InitialSnapshot once it is
\* taken, is one of the assets the Wrapper tracks.
C12_BookKeysAreTracked ==
    wrapper # NoWrapper
    => /\ DOMAIN positions \subseteq AssetSet
       /\ \A t \in DOMAIN pos_local :
             pos_local[t] # NoLocal
             => DOMAIN pos_local[t].new_positions \subseteq AssetSet
       /\ HasSnapshot => DOMAIN wrapper.initial_position.v \subseteq AssetSet

\* while one refresh stores the book it built from a position of an
\* untracked symbol, another is about to store a tracked one
C12_UntrackedFiltered ==
    \E t, u \in Updaters :
        /\ pos_pc[t] = "unlocking"
        /\ pos_local[t].response = Ok(ServerPosition(Untracked))
        /\ pos_pc[u] = "locking"
        /\ DOMAIN pos_local[u].new_positions = {"MSFT"}

\* C13: the PriceTable is empty or has an entry for every tracked asset.
C13_TableEmptyOrComplete ==
    \/ DOMAIN last_prices = {}
    \/ DOMAIN last_prices = AssetSet

\* update_prices has stored after responses that name only one tracked asset
C13_StoredAfterPartialResponses ==
    /\ up_pc = "done"
    /\ \A i \in ItemSet :
          /\ tasks[i].state = "joined"
          /\ tasks[i].out = Ok(JObject([k \in {i} |->
                                  JObject(PriceMap(i, {"AAPL"}))]))

\* C14: the Cash stored is a finite number, whatever the account response
\* holds in its cash field.
C14_CashIsFinite == is_finite(from_bits(cash))

\* C15: new called with an empty asset list makes no request, starts no
\* connect and yields no Wrapper; a Wrapper's assets are the non-empty list
\* new was called with.
C15_EmptyAssetsRejectedFirst ==
    /\ (new_arg = <<>> /\ main_pc # "init")
       => /\ requests = 0
          /\ wrapper = NoWrapper
          /\ main_pc # "ready"
          /\ \A i \in 1..Len(trace) : trace[i][2] = "assert"
    /\ wrapper # NoWrapper
       => /\ wrapper.assets = new_arg
          /\ wrapper.assets # <<>>

\* new(.., []) has panicked
C15_EmptyListPanicked == new_arg = <<>> /\ main_pc = "panicked"

\* the steps of the trace, without the books the end events carry
StepsOf(tr) == [i \in 1..Len(tr) |-> <<tr[i][1], tr[i][2]>>]
IsPrefix(s, t) == Len(s) <= Len(t) /\ s = SubSeq(t, 1, Len(s))
ExpectedSteps ==
    <<<<"begin", "assert">>, <<"end", "assert">>,
      <<"begin", "connect">>, <<"end", "connect">>,
      <<"begin", "update_cash">>, <<"end", "update_cash">>,
      <<"begin", "update_positions">>, <<"end", "update_positions">>,
      <<"begin", "update_prices">>, <<"end", "update_prices">>,
      <<"begin", "snapshot">>, <<"end", "snapshot">>>>

\* C16: new runs connect, the cash refresh, the position refresh and one
\* price cycle in this order, each ended before the next begins; the
\* snapshot is taken, and the Wrapper returned, only after the price cycle
\* has ended.
C16_ConstructionOrder ==
    /\ IsPrefix(StepsOf(trace), ExpectedSteps)
    /\ HasSnapshot
       => \E i \in 1..Len(trace) : StepsOf(trace)[i] = <<"end", "update_prices">>
    /\ main_pc = "ready" => StepsOf(trace) = ExpectedSteps
    /\ cash_pc[Main] = "storing" => main_pc = "update_cash"
    /\ pos_pc[Main] \in {"locking", "storing", "unlocking"}
       => main_pc = "update_positions"
    /\ up_pc \in {"joining", "locking", "storing", "unlocking"}
       => main_pc = "update_prices"

\* new has returned the Wrapper
C16_WrapperReturned == main_pc = "ready" /\ HasSnapshot

\* the book that the position refresh of new left
FirstRefreshBooks ==
    {trace[i][3] : i \in {j \in 1..Len(trace) :
                            /\ trace[j][1] = "end"
                            /\ trace[j][2] = "update_positions"}}

\* C17: the InitialSnapshot is the book that new's position refresh stored,
\* whatever later refreshes have made of the PositionBook.
C17_SnapshotIsFirstBook ==
    HasSnapshot => FirstRefreshBooks = {wrapper.initial_position.v}

\* a later refresh has emptied the book of a Wrapper whose snapshot holds AAPL
C17_BookDiffersFromSnapshot ==
    /\ HasSnapshot
    /\ main_pc = "ready"
    /\ DOMAIN wrapper.initial_position.v = {"AAPL"}
    /\ positions = EmptyBook
    /\ \A t \in Updaters : pos_pc[t] = "idle"

\* the symbols of the position objects in a response
SymbolsIn(response) ==
    IF ~response.ok THEN {}
    ELSE LET v == response.val
             objs == IF v.kind = "Array"
                     THEN {v.elems[i] : i \in 1..Len(v.elems)}
                     ELSE {v}
         IN {as_str(Index(o, "symbol")).v :
                o \in {x \in objs : as_str(Index(x, "symbol")).some}}

\* C18: when a position refresh has stored, the keys of the PositionBook are
\* exactly the tracked symbols of the response that refresh got; nothing of
\* the former book is left.
C18_BookReplacedWholesale ==
    \A t \in DOMAIN pos_pc :
        (pos_pc[t] = "unlocking" /\ wrapper # NoWrapper)
        => DOMAIN positions = SymbolsIn(pos_local[t].response) \cap AssetSet

\* a refresh got a position of MSFT and has stored; the snapshot, an earlier
\* book, holds AAPL
C18_FormerSymbolGone ==
    \E t \in Updaters :
        /\ pos_pc[t] = "unlocking"
        /\ pos_local[t].response = Ok(BadFieldsPosition("MSFT"))
        /\ HasSnapshot
        /\ DOMAIN wrapper.initial_position.v = {"AAPL"}

\* the position objects of a response whose symbol is tracked
TrackedPositionsIn(response) ==
    LET v == response.val
        objs == IF v.kind = "Array"
                THEN {v.elems[i] : i \in 1..Len(v.elems)}
                ELSE {v}
    IN {o \in objs : /\ as_str(Index(o, "symbol")).some
                     /\ as_str(Index(o, "symbol")).v \in AssetSet}

\* the number a string field stands for, 0.0 for any other field
ExpectedField(o, key) ==
    IF /\ key \in DOMAIN o.map
       /\ o.map[key].kind = "String"
       /\ parse_f64(o.map[key].s).ok
    THEN parse_f64(o.map[key].s).val
    ELSE Finite(0)

\* C19: a refresh that got a response does not fail, and the book it builds
\* has, for every tracked position of the response, the four numbers parsed
\* from that position's string fields, 0.0 for a field that is absent, no
\* string or no number's text.
C19_FieldsParsedOrZero ==
    \A t \in Updaters :
        (pos_local[t] # NoLocal /\ pos_local[t].response.ok)
        => \A o \in TrackedPositionsIn(pos_local[t].response) :
              LET a == as_str(Index(o, "symbol")).v
                  new == pos_local[t].new_positions
              IN /\ pos_pc[t] # "panicked"
                 /\ a \in DOMAIN new
                 /\ new[a] = [qty |-> ExpectedField(o, "qty_available"),
                              value |-> ExpectedField(o, "market_value"),
                              entry |-> ExpectedField(o, "avg_entry_price"),
                              price |-> ExpectedField(o, "current_price")]

\* C20: the Cash holds exactly the value of the latest store, and every load
\* returned the value of the latest store before it, whole.
C20_LoadsReturnStoredValues ==
    /\ cash = to_bits(stored)
    /\ \A t \in CashThreads :
          loaded[t] # NoLocal => loaded[t].got = loaded[t].want

\* a thread has loaded the 250000.0 another stored, while a third call is
\* about to store NaN
C20_LoadBetweenStores ==
    \E t, u \in CashThreads :
        /\ loaded[t] # NoLocal
        /\ loaded[t].got = Finite(250000000)
        /\ cash_pc[u] = "storing"
        /\ cash_local[u] = NaN

CallsOf(fn) == {calls[i] : i \in {j \in 1..Len(calls) : calls[j].fn = fn}}

\* C21: validate_keys returns true exactly when the whole key is PK or AK
\* followed by at least 10 characters of A-Z, 0-9 and the whole secret is at
\* least 40 characters of A-Z, a-z, 0-9; two calls with the same arguments
\* return the same.
C21_ValidateKeysExact ==
    \A c \in CallsOf("validate_keys") :
        LET k == c.api_key
            s == c.api_secret
            keyOk == /\ Len(k) >= 2 + 10
                     /\ SubSeq(k, 1, 2) \in {<<"P", "K">>, <<"A", "K">>}
                     /\ \A i \in 3..Len(k) : k[i] \in Upper \cup Digit
            secretOk == /\ Len(s) >= 40
                        /\ \A i \in 1..Len(s) :
                              s[i] \in Upper \cup Lower \cup Digit
        IN /\ c.returned = (keyOk /\ secretOk)
           /\ \A d \in CallsOf("validate_keys") :
                 (d.api_key = k /\ d.api_secret = s) => d.returned = c.returned

\* validate_keys has accepted AK with ten digits and a secret of forty
\* letters, and has rejected a well-formed secret paired with a key whose
\* tail is one character short
C21_BoundaryAcceptedAndRejected ==
    /\ Len(calls) = 2
    /\ calls[1] = [fn |-> "validate_keys",
                   api_key |-> <<"A", "K">> \o Rep("0", 10),
                   api_secret |-> Rep("x", 40), returned |-> TRUE]
    /\ calls[2] = [fn |-> "validate_keys",
                   api_key |-> <<"P", "K">> \o Rep("Z", 9),
                   api_secret |-> Rep("x", 40), returned |-> FALSE]

\* C22: from_str returns Trades, Quotes, Bars for exactly "trades", "quotes",
\* "bars" and an error for every other string, never a default variant;
\* from_str of to_string(p) is p for each of the three variants.
C22_FromStrStrictAndRoundTrip ==
    /\ \A c \in CallsOf("from_str") :
          /\ c.s = "trades" => c.returned = Ok("Trades")
          /\ c.s = "quotes" => c.returned = Ok("Quotes")
          /\ c.s = "bars" => c.returned = Ok("Bars")
          /\ ~(c.s \in {"trades", "quotes", "bars"}) => ~c.returned.ok
    /\ \A c \in CallsOf("to_string, from_str") :
          /\ c.text \in {"trades", "quotes", "bars"}
          /\ c.returned = Ok(c.p)

\* from_str has rejected "Trades" and the empty string
C22_OtherCaseAndEmptyRejected ==
    /\ Len(calls) = 2
    /\ calls[1].fn = "from_str" /\ calls[1].s = "Trades"
    /\ ~calls[1].returned.ok
    /\ calls[2].fn = "from_str" /\ calls[2].s = ""
    /\ ~calls[2].returned.ok

\* C23: place_order builds one request, a POST to /v2/orders on the Client's
\* trading host, whose body has the caller's symbol, quantity and side, the
\* caller's order type and time-in-force when supplied and "market" and
\* "ioc" when not; the request is sent once.
C23_PlaceOrderRequest ==
    (InCall("place_order") /\ req # NoReq)
    => /\ req.method = "POST"
       /\ req.url = [base |-> client.base_url, path |-> <<"/v2/orders">>]
       /\ req.query = None
       /\ req.body =
             Some([symbol |-> stack[1].symbol,
                   qty |-> stack[1].qty,
                   side |-> stack[1].side,
                   type |-> IF stack[1].order_type.some
                            THEN stack[1].order_type.v ELSE "market",
                   time_in_force |-> IF stack[1].time_in_force.some
                                     THEN stack[1].time_in_force.v
                                     ELSE "ioc"])
       /\ sent = IF pc = "mr_send" THEN 0 ELSE 1

\* place_order has sent a sell order with a time-in-force and no order type
C23_DefaultTypeSuppliedTimeInForce ==
    /\ InCall("place_order")
    /\ stack[1].side = "sell"
    /\ stack[1].order_type = None
    /\ stack[1].time_in_force = Some("day")
    /\ sent = 1
    /\ req.body.v.type = "market"
    /\ req.body.v.time_in_force = "day"

\* C24: the Client's info is written when the Client is made and never
\* after: connect sets it to what its own account fetch returned, and no
\* operation on the Client, a get_account that returns other data
\* included, changes the Client.
C24_InfoWrittenOnlyAtConnect ==
    [][client' # client
       => \/ /\ InCall("connect")
             /\ pc = "connect_resume"
             /\ mr_result.ok
             /\ client'.info = mr_result.val
          \/ /\ stack = <<>>
             /\ pc = "idle"]_vars

\* get_account on a Client that connect returned has fetched an account
\* that differs from the Client's info
C24_LaterAccountDiffers ==
    /\ InCall("get_account")
    /\ pc = "returned"
    /\ client.built
    /\ client.base_url = BaseUrl
    /\ result.ok
    /\ result.val # client.info

\* C25: update_prices takes the outcome of each of its three tasks out of the
\* JoinSet before it finishes, also when the first task to finish has
\* failed: no task is aborted and no finished task's outcome is dropped.
C25_AllOutcomesConsumed ==
    /\ \A i \in ItemSet : ~(tasks[i].state \in {"aborted", "dropped"})
    /\ up_pc \in {"locking", "storing", "unlocking", "done", "panicked"}
       => \A i \in ItemSet : tasks[i].state = "joined"

\* a response keyed by its own price type
OwnKeyed(out, item) ==
    /\ out.ok
    /\ out.val.kind = "Object"
    /\ DOMAIN out.val.map = {item}

JoinedItems == {i \in ItemSet : tasks[i].state = "joined"}

\* the table that holds, for each tracked asset, under each price type, what
\* that type's response gives for the asset
TableOf(joined) ==
    [a \in AssetSet |->
        LET has == {i \in joined :
                      /\ tasks[i].out.val.map[i].kind = "Object"
                      /\ a \in DOMAIN tasks[i].out.val.map[i].map}
        IN [k \in {from_str(i).val : i \in has} |->
              LET i == CHOOSE j \in has : from_str(j).val = k
              IN tasks[i].out.val.map[i].map[a]]]

\* C26: the table update_prices has merged is determined by the responses it
\* has taken, each keyed by its own price type, whatever the order in which
\* their tasks completed.
C26_MergeIsOrderIndependent ==
    (/\ up_pc \in {"joining", "locking", "storing", "unlocking", "done"}
     /\ \A i \in JoinedItems : OwnKeyed(tasks[i].out, i))
    => asset_prices = TableOf(JoinedItems)

\* bars and quotes have been merged before trades, the first task launched,
\* whose response waits in the JoinSet
C26_LaunchedFirstMergedLast ==
    /\ up_pc = "joining"
    /\ JoinedItems = {"bars", "quotes"}
    /\ finished = <<"trades">>
    /\ \A i \in ItemSet : Covers(tasks[i].out, i)
    /\ \A a \in AssetSet : DOMAIN asset_prices[a] = {"Quotes", "Bars"}

\* who holds the PositionBook's write guard, the PriceTable's write guard,
\* a read guard of the PriceTable
BookWriters ==
    {t \in DOMAIN pos_pc : pos_pc[t] \in {"storing", "unlocking", "logging"}}
TableWriter == up_pc \in {"storing", "unlocking"}
TableReaders == {r \in Readers : rd_pc[r] \in {"locked", "copied"}}

\* C27: each lock is held only by the operations that took it, each of which
\* holds that one lock and no other; no write guard of the PriceTable is
\* held while a price request is in flight; whoever holds a guard can go on
\* to release it without taking a lock, and whoever waits for a lock waits
\* for such a holder: refreshers and readers never wait for one another in
\* a circle.
C27_OneLockAtATimeNoDeadlock ==
    /\ positions_lock.writer = (BookWriters # {})
    /\ Cardinality(BookWriters) <= 1
    /\ positions_lock.readers = 0
    /\ prices_lock.writer = TableWriter
    /\ prices_lock.readers = Cardinality(TableReaders)
    /\ ~(TableWriter /\ TableReaders # {})
    /\ (\E i \in ItemSet : tasks[i].state = "running") => ~TableWriter
    /\ \A t \in BookWriters :
          ENABLED (PosStore(t) \/ PosUnlock(t) \/ PosLogError(t))
    /\ TableWriter => ENABLED (UpStore \/ UpUnlock)
    /\ \A r \in TableReaders : ENABLED (RdCopy(r) \/ RdUnlock(r))
    /\ \A t \in DOMAIN pos_pc :
          pos_pc[t] = "locking" => (ENABLED PosLock(t)) \/ BookWriters # {}
    /\ up_pc = "locking" => (ENABLED UpWriteLock) \/ TableReaders # {}

\* update_prices holds the PriceTable's write guard while one position
\* refresh holds the PositionBook's and another waits for it
C27_BothLocksHeldByDifferentRefreshes ==
    /\ up_pc = "storing"
    /\ \E t, u \in Updaters :
          /\ pos_pc[t] = "storing"
          /\ pos_pc[u] = "locking"

\* C28: a position refresh that meets a poisoned PositionBook lock logs the
\* failure and returns; in none of its steps from the lock on does it change
\* the PositionBook, the Cash or the PriceTable, and it does not panic.
C28_PoisonedLockAbandonsRefresh ==
    [][\A t \in Updaters :
          (/\ positions_lock.poisoned
           /\ pos_pc[t] \in {"locking", "logging"}
           /\ pos_pc'[t] # pos_pc[t])
          => /\ positions' = positions
             /\ cash' = cash
             /\ last_prices' = last_prices
             /\ pos_pc'[t] \in {"logging", "idle"}
             /\ pos_pc'[t] = "idle" => t \in logged']_vars

\* a refresh has logged the failure and returned; the book and the cash of
\* earlier refreshes are still there
C28_AbandonedWithStateKept ==
    \E t \in Updaters :
        /\ positions_lock.poisoned
        /\ t \in logged
        /\ pos_pc[t] = "idle"
        /\ DOMAIN positions = {"AAPL"}
        /\ from_bits(cash) = Finite(250000000)

\* C29: a refresh whose fetch ended in an error has handed that error to its
\* caller: a position refresh does not go on to the lock and the store with
\* it, and neither a position refresh nor a price refresh turns it into a
\* panic.
C29_RefreshForwardsFetchError ==
    /\ \A t \in DOMAIN pos_pc :
          (pos_local[t] # NoLocal /\ ~pos_local[t].response.ok)
          => ~(pos_pc[t] \in {"locking", "storing", "unlocking", "logging",
                              "panicked"})
    /\ (\E i \in ItemSet : tasks[i].state = "joined" /\ ~tasks[i].out.ok)
       => up_pc # "panicked"

\* C30: a refresh whose fetch has failed changes nothing: the step in which
\* a cash refresh or a price refresh fails leaves the Cash and the
\* PriceTable as they were, and a position refresh whose fetch returned an
\* error leaves the PositionBook as it was when it gets to its store.
C30_FailedFetchKeepsAggregate ==
    [][/\ \A t \in DOMAIN cash_pc :
             (cash_pc[t] # "panicked" /\ cash_pc'[t] = "panicked")
             => cash' = cash
       /\ (up_pc # "panicked" /\ up_pc' = "panicked")
          => last_prices' = last_prices
       /\ \A t \in DOMAIN pos_pc :
             (/\ pos_pc[t] = "storing"
              /\ ~pos_local[t].response.ok
              /\ pos_pc'[t] # "storing")
             => positions' = positions]_vars

\* C31: a step of a cash refresh leaves the PositionBook and the PriceTable
\* as they were, a step of a position refresh the Cash and the PriceTable, a
\* step of a price refresh the Cash and the PositionBook; no step of a
\* refresh called on a returned Wrapper changes its assets or its
\* InitialSnapshot.
C31_RefreshChangesOnlyItsAggregate ==
    [][main_pc = "ready"
       => /\ cash_pc' # cash_pc
             => positions' = positions /\ last_prices' = last_prices
          /\ pos_pc' # pos_pc
             => cash' = cash /\ last_prices' = last_prices
          /\ (up_pc' # up_pc \/ tasks' # tasks)
             => cash' = cash /\ positions' = positions
          /\ wrapper' # NoWrapper
          /\ wrapper'.assets = wrapper.assets
          /\ wrapper'.initial_position = wrapper.initial_position]_vars

\* each of the three refreshes has run to its end: the Cash is 250000.0, the
\* PositionBook holds AAPL, a price refresh is done, and the InitialSnapshot
\* is still the empty book
C31_AllThreeRefreshed ==
    /\ main_pc = "ready"
    /\ from_bits(cash) = Finite(250000000)
    /\ DOMAIN positions = {"AAPL"}
    /\ up_pc = "done"
    /\ \A t \in Updaters : cash_pc[t] = "idle" /\ pos_pc[t] = "idle"
    /\ wrapper.initial_position = Some(EmptyBook)
    /\ wrapper.assets = TestAssets

\* C32: while a request is in flight, a failure of send() with any pair of
\* is_timeout() and is_connect() can happen, and every such failure makes
\* make_request return Timeout when is_timeout() holds (whatever
\* is_connect() says), otherwise ConnectionError when is_connect() holds,
\* otherwise RequestError carrying the failure; the call is over, no response
\* has been received and no body read.
C32_SendFailureClassifiedByPriority ==
    pc = "mr_wait"
    => \A isTimeout \in BOOLEAN : \A isConnect \in BOOLEAN :
         /\ ENABLED MrSendFail(isTimeout, isConnect)
         /\ ~ ENABLED (/\ MrSendFail(isTimeout, isConnect)
                       /\ ~ (/\ mr_result' =
                                  Err(IF isTimeout THEN Timeout
                                      ELSE IF isConnect
                                           THEN ConnectionError("send")
                                           ELSE RequestError(
                                                  ReqwestError("send", FALSE,
                                                               FALSE)))
                             /\ mr_result'.err.kind
                                  \in {"Timeout", "ConnectionError",
                                       "RequestError"}
                             /\ pc' = "mr_done"
                             /\ resp' = NoResp
                             /\ body_read' = "none"
                             /\ sent' = sent))

\* a request was sent once and its send() failed with a timeout: the call
\* returned Timeout with no response received
C32_SendTimedOut ==
    /\ pc = "mr_done"
    /\ sent = 1
    /\ timed_out
    /\ resp = NoResp
    /\ body_read = "none"
    /\ mr_result = Err(Timeout)

\* what C33 says of a connect that has returned: one request was sent, the
\* account fetch, and the result is the Client exactly when the fetch
\* succeeded, else the fetch's own error
ConnectFetchedOnce ==
    /\ sent = 1
    /\ Len(stack) = 2
    /\ stack[2].op = "get_account"
    /\ req.method = "GET"
    /\ req.url = [base |-> BaseUrl, path |-> <<"/v2/account">>]
    /\ mr_result # NoResult
    /\ (result = Ok("client")) <=> mr_result.ok
    /\ mr_result.ok => client.built /\ client.info = mr_result.val
    /\ ~mr_result.ok => result = Err(mr_result.err)

\* C33 as stated: every connect with credentials that pass validate_keys
\* has, when it returns, made exactly one network call, the account fetch,
\* and returns the Client if and only if the fetch succeeded, else the
\* fetch's error.
C33_ConnectFetchesExactlyOnce ==
    (/\ InCall("connect")
     /\ pc = "returned"
     /\ key_re(stack[1].api_key)
     /\ secret_re(stack[1].api_secret))
    => ConnectFetchedOnce

\* C33, amended: a connect with credentials that pass validate_keys and whose
\* HTTP client could be built has, when it returns, made exactly one network
\* call, the account fetch, and returns the Client if and only if the fetch
\* succeeded, else the fetch's error; when the HTTP client could not be
\* built it returns that RequestError, with no network call and no Client.
C33_BuiltConnectFetchesExactlyOnce ==
    (/\ InCall("connect")
     /\ pc = "returned"
     /\ key_re(stack[1].api_key)
     /\ secret_re(stack[1].api_secret))
    => IF constructed
       THEN ConnectFetchedOnce
       ELSE /\ sent = 0
            /\ req = NoReq
            /\ result =
                 Err(RequestError(ReqwestError("builder", FALSE, FALSE)))

\* connect with the test credentials has returned the error of its one
\* account fetch, a 500, and no Client
C33_ConnectFetchFailed ==
    /\ InCall("connect")
    /\ pc = "returned"
    /\ stack[1].api_key = KeyTest
    /\ constructed
    /\ sent = 1
    /\ resp # NoResp
    /\ resp.status = 500
    /\ ~result.ok
    /\ result = Err(mr_result.err)

\* the one or two symbols of a list, separated by a comma, in the list's order
SymbolsInOrder(list) ==
    IF Len(list) = 1 THEN <<list[1]>> ELSE <<list[1], ",", list[2]>>

\* C34: a get_prices call with one of the three price types and a non-empty
\* asset list builds one request, to the Client's data_url with the path
\* /v2/stocks/{price_type}/latest and the query symbols = the assets joined
\* by commas in the order given, sends it once, and has sent it when it
\* returns; the request of get_account, get_positions, place_order and
\* get_order_info goes to the Client's base_url.
C34_PricesToDataHostOthersToTradingHost ==
    /\ (/\ InCall("get_prices")
        /\ stack[1].price_type \in {"trades", "quotes", "bars"}
        /\ stack[1].assets # <<>>)
       => /\ sent <= 1
          /\ pc = "returned" => sent = 1
          /\ sent = 1
             => /\ req.method = "GET"
                /\ req.url.base = stack[1].self.data_url
                /\ req.url.path =
                     <<"/v2/stocks/", stack[1].price_type, "/latest">>
                /\ req.query = Some([symbols |->
                                        SymbolsInOrder(stack[1].assets)])
                /\ req.body = None
    /\ (/\ Len(stack) > 0
        /\ Top.op \in {"get_account", "get_positions", "place_order",
                        "get_order_info"}
        /\ sent = 1)
       => /\ req.url.base = Top.self.base_url
          /\ req.query = None

\* get_prices for MSFT then AAPL on a test Client, whose two hosts differ, has
\* sent its request: symbols is MSFT,AAPL and the host is the data host
C34_QuotesForTwoSymbolsSent ==
    /\ InCall("get_prices")
    /\ stack[1].assets = <<"MSFT", "AAPL">>
    /\ stack[1].price_type = "quotes"
    /\ sent = 1
    /\ stack[1].self.data_url # stack[1].self.base_url
    /\ req.url = [base |-> stack[1].self.data_url,
                  path |-> <<"/v2/stocks/", "quotes", "/latest">>]
    /\ req.query = Some([symbols |-> <<"MSFT", ",", "AAPL">>])

====
